---- MODULE Spec2Model ----
(***************************************************************************)
(* turbostage_data: the JSON submission merge (merge_submission.py) and    *)
(* the relational import (import_database.py).                             *)
(*                                                                         *)
(* JSON side.  A Python dict is an insertion-ordered list of entries; a    *)
(* key is tagged with its Python type, because the int 1 and the str "1"   *)
(* are different dict keys.  The catalog file is JSON text: its "games"    *)
(* object is the list of (key, value) members as written, duplicates       *)
(* included.  A version record is [executable, hashes]; "hashes" is always *)
(* present, as the catalog format has it.  Version names, file names,      *)
(* digests and executables are numbered.                                   *)
(*                                                                         *)
(* Relational side.  A table is a set of rows with distinct ids, scanned   *)
(* in rowid order.  A games row is [id, igdb_id], a versions row is        *)
(* [id, game_id], a hashes or config_files row is [id, version_id, data],  *)
(* data standing for the columns that are copied as they are.  The output  *)
(* store is kept twice: as committed to its file (disk) and as the open    *)
(* connection sees it (conn).                                              *)
(***************************************************************************)
EXTENDS Integers, Sequences, FiniteSets, TLC

\* ------------------------------------------------------------------ bounds
MaxGame == 1
MaxVer == 2
MaxHashKey == 2
MaxHashVal == 2
MaxExe == 2
MaxGlobalVersions == 1
MaxSubVersions == 2
MaxHashes == 2
MaxRuns == 2
MaxSrcGames == 2
MaxSrcVersions == 2
MaxSrcHashes == 2
MaxSrcConfigs == 1
MaxSrcRows == 3
MaxDstGames == 2
MaxDstPerTable == 1
MaxDstRows == 2
MaxCopyDstRows == 1
MaxGap == 1
MaxMapped == 2
MaxIgdb == 2
MaxData == 2

GameIds == 1..MaxGame
VerNames == 1..MaxVer
HashKeys == 1..MaxHashKey
HashVals == 1..MaxHashVal
Exes == 1..MaxExe

VARIABLES
  pc,            \* position of merge_submission.main
  file,          \* GLOBAL_DB_PATH: [exists, hasGames, games]
  submission,    \* the loaded submission: list of [key, versions]
  validate,      \* args.validate
  archives,      \* ARCHIVE_ROOT as seen by the verifier, per submitted version
  ok,            \* result of verify_submission
  global_db,     \* the in-memory catalog: [hasGames, games]
  merged_count,  \* merge_into_global's counter
  runs,          \* number of runs of the tool started so far
  before,        \* the catalog file as it was when the current run started
  first          \* the catalog file as the first run left it

VARIABLES
  ipc,                \* position of import_database.main
  input_db,           \* the source store (args.input_db)
  exists,             \* os.path.isfile(output_db)
  disk,               \* the output store as committed to its file
  conn,               \* the output store as output_conn saw it last (pending writes included)
  disk0,              \* the output store before the import
  game_id_mapping,    \* source games.id -> output games.id
  version_id_mapping, \* source versions.id -> output versions.id
  inserted,           \* the "Inserted n ..." count each copy reported
  error,              \* the exception main caught, "" when none
  committed           \* the tables committed so far, in commit order

ivars == <<ipc, input_db, exists, disk, conn, disk0, game_id_mapping,
           version_id_mapping, inserted, error, committed>>

jvars == <<pc, file, submission, validate, archives, ok, global_db,
           merged_count, runs, before, first>>

\* --------------------------------------------------------------- dict model
StrKey(n) == [t |-> "str", n |-> n]
IntKey(n) == [t |-> "int", n |-> n]

EmptyDict == [k \in {} |-> 0]

Keys(d) == {d[i].key : i \in 1..Len(d)}

\* position of key k in dict d (0 when absent)
IndexOf(d, k) ==
  IF k \in Keys(d) THEN CHOOSE i \in 1..Len(d) : d[i].key = k ELSE 0

Get(d, k) == d[IndexOf(d, k)].versions

\* d[k] = v : overwrite in place, or append a new entry
SetItem(d, k, v) ==
  IF k \in Keys(d)
  THEN [d EXCEPT ![IndexOf(d, k)].versions = v]
  ELSE Append(d, [key |-> k, versions |-> v])

\* dict.update: key-wise, the argument's values win
Update(h, u) ==
  [k \in (DOMAIN h) \cup (DOMAIN u) |-> IF k \in DOMAIN u THEN u[k] ELSE h[k]]

\* ------------------------------------------------------ load_json/save_json
\* json.loads of an object: members in order, a repeated name keeps its first
\* position and takes its last value; every name is a str.
RECURSIVE ParseMembers(_, _)
ParseMembers(members, acc) ==
  IF members = << >> THEN acc
  ELSE ParseMembers(Tail(members),
                    SetItem(acc, StrKey(Head(members).key.n), Head(members).versions))

load_json(f) == [hasGames |-> f.hasGames, games |-> ParseMembers(f.games, << >>)]

\* json.dumps of a dict: one member per entry in order; an int key is written
\* as its decimal string, nothing is de-duplicated.
DumpMembers(d) == [i \in 1..Len(d) |-> [key |-> StrKey(d[i].key.n), versions |-> d[i].versions]]

save_json(db) == [exists |-> TRUE, hasGames |-> db.hasGames, games |-> DumpMembers(db.games)]

\* -------------------------------------------------------- merge_into_global
\* lines 98-105: the versions of one submitted game, in any order (the keys
\* are distinct, so the order does not matter)
MergeVersions(existing, subvers) ==
  [v \in (DOMAIN existing) \cup (DOMAIN subvers) |->
     IF v \notin DOMAIN subvers THEN existing[v]
     ELSE IF v \notin DOMAIN existing THEN subvers[v]
     ELSE [existing[v] EXCEPT !.hashes = Update(existing[v].hashes, subvers[v].hashes)]]

NewVersions(existing, subvers) == Cardinality((DOMAIN subvers) \ (DOMAIN existing))

\* line 94: igdb_id = int(igdb_id_str)
GameKey(k) == IntKey(k.n)

\* lines 93-105 over the submitted games in order; st = [games, count]
RECURSIVE MergeGames(_, _)
MergeGames(st, sub) ==
  IF sub = << >> THEN st
  ELSE LET k == GameKey(Head(sub).key)
           g0 == IF k \in Keys(st.games) THEN st.games
                 ELSE SetItem(st.games, k, EmptyDict)
           old == Get(g0, k)
       IN MergeGames([games |-> SetItem(g0, k, MergeVersions(old, Head(sub).versions)),
                      count |-> st.count + NewVersions(old, Head(sub).versions)],
                     Tail(sub))

merge_into_global(db, sub) ==
  LET r == MergeGames([games |-> db.games, count |-> 0], sub)
  IN [db |-> [hasGames |-> TRUE, games |-> r.games], merged_count |-> r.count]

\* -------------------------------------------------------- verify_submission
\* lines 74-83 for one hash of one version: the digest of the inner file in
\* the located archive against the submitted digest
CheckHash(arch, k, expected) ==
  IF k \notin DOMAIN arch.files THEN "missing"
  ELSE IF arch.files[k] # expected THEN "mismatch"
  ELSE "ok"

\* Flags, with the KeyError handler of lines 81-83 leaving ok as it is
FlagsNoMissing(outcome) == outcome = "mismatch"

\* lines 76-83: the outcomes that clear the ok flag
Flags(outcome) == outcome \in {"mismatch", "missing"}

\* lines 59-83 for one version; FALSE when the flag is cleared
VerifyVersion(ver, arch) ==
  /\ arch.found
  /\ \A k \in DOMAIN ver.hashes : ~Flags(CheckHash(arch, k, ver.hashes[k]))

verify_submission(sub, archs) ==
  \A i \in 1..Len(sub) : \A v \in DOMAIN sub[i].versions :
     VerifyVersion(sub[i].versions[v], archs[<<sub[i].key.n, v>>])

\* ------------------------------------------------------------------ inputs
HashMaps == UNION {[S -> HashVals] : S \in SUBSET HashKeys}

RECURSIVE SortedSeq(_)
SortedSeq(S) ==
  IF S = {} THEN << >>
  ELSE LET m == CHOOSE x \in S : \A y \in S : x <= y
       IN <<m>> \o SortedSeq(S \ {m})

\* the dict with games gs, version slots sl (pairs <<game, version>>),
\* executables ex and hash cells hc (triples <<game, version, file>>)
BuildDict(gs, sl, ex, hc) ==
  LET ids == SortedSeq(gs)
      rec(g, v) == [executable |-> ex[<<g, v>>],
                    hashes |-> [k \in {c[3] : c \in {d \in DOMAIN hc : d[1] = g /\ d[2] = v}}
                                  |-> hc[<<g, v, k>>]]]
  IN [i \in 1..Len(ids) |->
        [key |-> StrKey(ids[i]),
         versions |-> [v \in {s[2] : s \in {t \in sl : t[1] = ids[i]}} |-> rec(ids[i], v)]]]

Cells(sl) == {<<s[1], s[2], k>> : s \in sl, k \in HashKeys}

\* every dict with string keys with at most maxV versions and maxH hashes
Dicts(maxV, maxH) ==
  UNION { UNION { UNION { UNION {
    { BuildDict(gs, sl, ex, hc) : hc \in [cs -> HashVals] }
      : cs \in {c \in SUBSET Cells(sl) : Cardinality(c) <= maxH} }
      : ex \in [sl -> Exes] }
      : sl \in {s \in SUBSET (gs \X VerNames) : Cardinality(s) <= maxV} }
      : gs \in SUBSET GameIds }

AbsentFile == [exists |-> FALSE, hasGames |-> FALSE, games |-> << >>]

\* the catalog file before the first run: absent, without a "games" member,
\* or a well-formed catalog
Files ==
  {AbsentFile, [exists |-> TRUE, hasGames |-> FALSE, games |-> << >>]}
  \cup {[exists |-> TRUE, hasGames |-> TRUE, games |-> d] : d \in Dicts(MaxGlobalVersions, MaxHashes)}

Submissions == Dicts(MaxSubVersions, MaxHashes)

SubSlots(sub) ==
  UNION {{<<sub[i].key.n, v>> : v \in DOMAIN sub[i].versions} : i \in 1..Len(sub)}

\* what the verifier can observe of the archive located for a version: none
\* found, or the digests of those inner files the submission names that the
\* archive holds
NoArchive == [found |-> FALSE, files |-> EmptyDict]

Archives(ver) ==
  {NoArchive} \cup
  UNION {{[found |-> TRUE, files |-> f] : f \in [S -> HashVals]} : S \in SUBSET DOMAIN ver.hashes}

SubVersion(sub, slot) == Get(sub, StrKey(slot[1]))[slot[2]]

ArchiveRoots(sub) ==
  {a \in [SubSlots(sub) -> [found : BOOLEAN, files : HashMaps]] :
     \A s \in SubSlots(sub) : a[s] \in Archives(SubVersion(sub, s))}

\* ------------------------------------------------- merge_submission.main
JInit ==
  /\ pc = "start"
  /\ file \in Files
  /\ submission \in Submissions
  /\ validate \in BOOLEAN
  /\ archives = EmptyDict
  /\ ok = TRUE
  /\ global_db = [hasGames |-> FALSE, games |-> << >>]
  /\ merged_count = 0
  /\ runs = 1
  /\ before = file
  /\ first = file

\* lines 122-126
Verify ==
  /\ pc = "start"
  /\ validate
  /\ \E archs \in ArchiveRoots(submission) :
       /\ archives' = archs
       /\ ok' = verify_submission(submission, archs)
       /\ pc' = IF verify_submission(submission, archs) THEN "verified" ELSE "aborted"
  /\ UNCHANGED <<file, submission, validate, global_db, merged_count, runs, before, first>>
  /\ UNCHANGED ivars

\* lines 128-132
LoadGlobal ==
  /\ \/ pc = "verified"
     \/ pc = "start" /\ ~validate
  /\ global_db' = IF file.exists THEN load_json(file)
                  ELSE [hasGames |-> TRUE, games |-> << >>]
  /\ pc' = "loaded"
  /\ UNCHANGED <<file, submission, validate, archives, ok, merged_count, runs, before, first>>
  /\ UNCHANGED ivars

\* line 135
Merge ==
  /\ pc = "loaded"
  /\ global_db' = merge_into_global(global_db, submission).db
  /\ merged_count' = merge_into_global(global_db, submission).merged_count
  /\ pc' = "merged"
  /\ UNCHANGED <<file, submission, validate, archives, ok, runs, before, first>>
  /\ UNCHANGED ivars

\* line 140
Save ==
  /\ pc = "merged"
  /\ file' = save_json(global_db)
  /\ first' = IF runs = 1 THEN save_json(global_db) ELSE first
  /\ pc' = "done"
  /\ UNCHANGED <<submission, validate, archives, ok, global_db, merged_count, runs, before>>
  /\ UNCHANGED ivars

\* the tool is run again on the same submission
Rerun ==
  /\ pc = "done"
  /\ runs < MaxRuns
  /\ runs' = runs + 1
  /\ before' = file
  /\ pc' = "start"
  /\ UNCHANGED <<file, submission, validate, archives, ok, global_db, merged_count, first>>
  /\ UNCHANGED ivars

JNext == Verify \/ LoadGlobal \/ Merge \/ Save \/ Rerun


\* ------------------------------------------------- claims, JSON merge tool
\* the catalog a reader of the file gets
Catalog(f) == load_json(f).games

HasVersion(d, k, v) == k \in Keys(d) /\ v \in DOMAIN Get(d, k)

\* C1: a submitted version that already exists under the same external id in
\* the target has, in the saved catalog, the target's hashes overridden
\* key-wise by the submission's, and every other field as in the target.
C1_HashUnion ==
  pc = "done" =>
    \A i \in 1..Len(submission) : \A v \in DOMAIN submission[i].versions :
      LET k == submission[i].key
      IN HasVersion(Catalog(before), k, v) =>
           /\ HasVersion(Catalog(file), k, v)
           /\ Get(Catalog(file), k)[v] =
                [Get(Catalog(before), k)[v] EXCEPT
                   !.hashes = Update(Get(Catalog(before), k)[v].hashes,
                                     submission[i].versions[v].hashes)]

\* C2: every game and version of the target is still in the saved catalog,
\* and the saved catalog holds exactly one entry per external id.
C2_PreservesExisting ==
  pc = "done" =>
    /\ \A k \in Keys(Catalog(before)) :
         /\ k \in Keys(Catalog(file))
         /\ \A v \in DOMAIN Get(Catalog(before), k) : HasVersion(Catalog(file), k, v)
    /\ \A i, j \in 1..Len(file.games) : file.games[i].key = file.games[j].key => i = j

\* C3: merging the same submission a second time, after a save and a reload,
\* leaves the catalog as the first merge left it and adds no game and no
\* version.
C3_Idempotent ==
  (pc = "done" /\ runs = 2) =>
    /\ file.games = first.games
    /\ merged_count = 0
    /\ Len(global_db.games) = Len(Catalog(before))

Mismatch(s, k) ==
  /\ archives[s].found
  /\ k \in DOMAIN archives[s].files
  /\ archives[s].files[k] # SubVersion(submission, s).hashes[k]

Missing(s, k) == archives[s].found /\ k \notin DOMAIN archives[s].files

\* C9: with the validate flag, verification succeeds only if no digest
\* differs from the submitted one and no inner file is missing, over every
\* version of the submission; after a failed verification the tool has
\* stopped with the catalog file as it was.
C9_VerificationGatesMerge ==
  /\ (validate /\ pc \in {"verified", "loaded", "merged", "done"}) =>
       /\ ok
       /\ \A s \in SubSlots(submission) :
            \A k \in DOMAIN SubVersion(submission, s).hashes :
              ~Mismatch(s, k) /\ ~Missing(s, k)
  /\ pc = "aborted" => (~ok /\ file = before /\ ~ENABLED JNext)

\* a verification that failed on a missing inner file alone, with a catalog
\* file present
C9_Witness ==
  /\ pc = "aborted"
  /\ file.exists
  /\ \E s \in SubSlots(submission) :
       \E k \in DOMAIN SubVersion(submission, s).hashes : Missing(s, k)
  /\ \A s \in SubSlots(submission) :
       /\ archives[s].found
       /\ \A k \in DOMAIN SubVersion(submission, s).hashes : ~Mismatch(s, k)

\* ======================================================= import_database.py
\* A store is [version, games, versions, hashes, config_files, seq]: the
\* db_version row, the four tables as sets of rows, and sqlite_sequence (the
\* last AUTOINCREMENT id handed out per table).
Tables == <<"games", "versions", "hashes", "config_files">>

\* line 5
DB_VERSION == "0.5.0"

DbVersions == {"0.5.0", "0.6.0"}

Ids(rows) == {r.id : r \in rows}

RECURSIVE ById(_)
\* the rows of a table in rowid order, the order a table scan returns them in
ById(rows) ==
  IF rows = {} THEN << >>
  ELSE LET m == CHOOSE r \in rows : \A q \in rows : r.id <= q.id
       IN <<m>> \o ById(rows \ {m})

\* INSERT of the column values cols into table t; lastrowid is out.seq[t]
Insert(out, t, cols) ==
  LET id == out.seq[t] + 1
  IN [out EXCEPT ![t] = @ \cup {[c \in {"id"} \cup DOMAIN cols |->
                                   IF c = "id" THEN id ELSE cols[c]]},
                 !.seq[t] = id]

\* lines 7-79
initialize_database ==
  [version |-> DB_VERSION, games |-> {}, versions |-> {}, hashes |-> {},
   config_files |-> {}, seq |-> [t \in {Tables[i] : i \in 1..4} |-> 0]]

\* ---------------------------------------------------------- copy_db_content
\* GamesLoop without line 217: the set of known igdb_ids is not updated
RECURSIVE GamesLoopNoAdd(_, _)
GamesLoopNoAdd(rows, st) ==
  IF rows = << >> THEN st
  ELSE LET row == Head(rows)
       IN IF row.igdb_id \in st.existing
          THEN GamesLoopNoAdd(Tail(rows), st)
          ELSE LET o == Insert(st.out, "games", [igdb_id |-> row.igdb_id])
               IN GamesLoopNoAdd(Tail(rows),
                    [out |-> o,
                     existing |-> st.existing,
                     mapping |-> (row.id :> o.seq["games"]) @@ st.mapping,
                     inserted |-> st.inserted + 1])

\* lines 209-219; st = [out, existing, mapping, inserted]
RECURSIVE GamesLoop(_, _)
GamesLoop(rows, st) ==
  IF rows = << >> THEN st
  ELSE LET row == Head(rows)
       IN IF row.igdb_id \in st.existing
          THEN GamesLoop(Tail(rows), st)
          ELSE LET o == Insert(st.out, "games", [igdb_id |-> row.igdb_id])
               IN GamesLoop(Tail(rows),
                    [out |-> o,
                     existing |-> st.existing \cup {row.igdb_id},
                     mapping |-> (row.id :> o.seq["games"]) @@ st.mapping,
                     inserted |-> st.inserted + 1])

\* lines 188-223
copy_db_content(input, out) ==
  GamesLoop(ById(input.games),
            [out |-> out, existing |-> {r.igdb_id : r \in out.games},
             mapping |-> EmptyDict, inserted |-> 0])

\* ------------------------------------------------------------ copy_versions
\* SELECT * FROM versions, without the WHERE clause of line 155
SelectAllVersions(rows, gmap) == rows

\* line 155: SELECT * FROM versions WHERE game_id IN (keys of the mapping)
SelectVersions(rows, gmap) ==
  {r \in rows : r.game_id \in DOMAIN gmap}

\* the inserted columns with game_id left as it is in the source
VersionColsNoRemap(row, gmap) == [game_id |-> row.game_id]

\* lines 173-176: the inserted columns, game_id remapped
VersionCols(row, gmap) == [game_id |-> gmap[row.game_id]]

\* lines 166-180; st = [out, mapping, inserted, raised]
RECURSIVE VersionsLoop(_, _, _)
VersionsLoop(rows, gmap, st) ==
  IF rows = << >> THEN st
  ELSE LET row == Head(rows)
       IN IF row.game_id \notin DOMAIN gmap
          THEN [st EXCEPT !.raised = TRUE]
          ELSE LET o == Insert(st.out, "versions", VersionCols(row, gmap))
               IN VersionsLoop(Tail(rows), gmap,
                    [out |-> o,
                     mapping |-> (row.id :> o.seq["versions"]) @@ st.mapping,
                     inserted |-> st.inserted + 1,
                     raised |-> FALSE])

\* lines 152-185
copy_versions(input, out, gmap) ==
  VersionsLoop(ById(SelectVersions(input.versions, gmap)), gmap,
               [out |-> out, mapping |-> EmptyDict, inserted |-> 0, raised |-> FALSE])

\* --------------------------------------------------------------- copy_table
\* line 127: SELECT * FROM t WHERE version_id IN (keys of the mapping)
SelectRows(rows, vmap) ==
  {r \in rows : r.version_id \in DOMAIN vmap}

\* the inserted columns with version_id left as it is in the source
RowColsNoRemap(row, vmap) ==
  [version_id |-> row.version_id, data |-> row.data]

\* lines 142-145: the inserted columns, version_id remapped, the others copied
RowCols(row, vmap) ==
  [version_id |-> vmap[row.version_id], data |-> row.data]

\* lines 137-147; st = [out, inserted]
RECURSIVE TableLoop(_, _, _, _)
TableLoop(t, rows, vmap, st) ==
  IF rows = << >> THEN st
  ELSE LET row == Head(rows)
       IN IF row.version_id \notin DOMAIN vmap
          THEN TableLoop(t, Tail(rows), vmap, st)
          ELSE TableLoop(t, Tail(rows), vmap,
                 [out |-> Insert(st.out, t, RowCols(row, vmap)),
                  inserted |-> st.inserted + 1])

\* lines 123-150
copy_table(t, input, out, vmap) ==
  TableLoop(t, ById(SelectRows(input[t], vmap)), vmap,
            [out |-> out, inserted |-> 0])

\* --------------------------------------------------- import_database.main
TableSet == {Tables[i] : i \in 1..4}

\* line 247, 249, 251, 253: output_conn.commit() makes the pending writes durable
Commit(d, c) == c

\* output_conn.close() commits what is pending
CloseCommits(d, c) == c

\* line 262: output_conn.close() without a commit discards what is pending
Close(d, c) == d

\* the output store a step leaves in the connection when it runs to its end
StepOut(t) ==
  CASE t = "games" -> copy_db_content(input_db, conn).out
    [] t = "versions" -> copy_versions(input_db, conn, game_id_mapping).out
    [] OTHER -> copy_table(t, input_db, conn, version_id_mapping).out

\* the connection after the first j inserts of a step
Partial(t, j) ==
  [conn EXCEPT ![t] = {r \in StepOut(t)[t] : r.id <= conn.seq[t] + j},
               !.seq[t] = conn.seq[t] + j]

\* lines 229-236, the output file exists
CheckVersion ==
  /\ ipc = "start"
  /\ exists
  /\ ipc' = IF input_db.version # disk.version THEN "conflict" ELSE "games"
  /\ UNCHANGED <<input_db, exists, disk, conn, disk0, game_id_mapping,
                 version_id_mapping, inserted, error, committed>>
  /\ UNCHANGED jvars

\* lines 237-238, the output file is created
Initialize ==
  /\ ipc = "start"
  /\ ~exists
  /\ exists' = TRUE
  /\ disk' = initialize_database
  /\ conn' = initialize_database
  /\ ipc' = "games"
  /\ UNCHANGED <<input_db, disk0, game_id_mapping, version_id_mapping,
                 inserted, error, committed>>
  /\ UNCHANGED jvars

\* lines 246-247
CopyGames ==
  /\ ipc = "games"
  /\ LET r == copy_db_content(input_db, conn)
     IN /\ conn' = r.out
        /\ disk' = Commit(disk, r.out)
        /\ game_id_mapping' = r.mapping
        /\ inserted' = [inserted EXCEPT !["games"] = r.inserted]
  /\ committed' = Append(committed, "games")
  /\ ipc' = "versions"
  /\ UNCHANGED <<input_db, exists, disk0, version_id_mapping, error>>
  /\ UNCHANGED jvars

\* lines 248-249
CopyVersions ==
  /\ ipc = "versions"
  /\ LET r == copy_versions(input_db, conn, game_id_mapping)
     IN IF r.raised
        THEN /\ conn' = r.out
             /\ error' = "RuntimeError"
             /\ ipc' = "except"
             /\ UNCHANGED <<disk, version_id_mapping, inserted, committed>>
        ELSE /\ conn' = r.out
             /\ disk' = Commit(disk, r.out)
             /\ version_id_mapping' = r.mapping
             /\ inserted' = [inserted EXCEPT !["versions"] = r.inserted]
             /\ committed' = Append(committed, "versions")
             /\ ipc' = "hashes"
             /\ UNCHANGED error
  /\ UNCHANGED <<input_db, exists, disk0, game_id_mapping>>
  /\ UNCHANGED jvars

\* lines 250-251
CopyHashes ==
  /\ ipc = "hashes"
  /\ LET r == copy_table("hashes", input_db, conn, version_id_mapping)
     IN /\ conn' = r.out
        /\ disk' = Commit(disk, r.out)
        /\ inserted' = [inserted EXCEPT !["hashes"] = r.inserted]
  /\ committed' = Append(committed, "hashes")
  /\ ipc' = "config_files"
  /\ UNCHANGED <<input_db, exists, disk0, game_id_mapping, version_id_mapping, error>>
  /\ UNCHANGED jvars

\* lines 252-253
CopyConfigFiles ==
  /\ ipc = "config_files"
  /\ LET r == copy_table("config_files", input_db, conn, version_id_mapping)
     IN /\ conn' = r.out
        /\ disk' = Commit(disk, r.out)
        /\ inserted' = [inserted EXCEPT !["config_files"] = r.inserted]
  /\ committed' = Append(committed, "config_files")
  /\ ipc' = "done"
  /\ UNCHANGED <<input_db, exists, disk0, game_id_mapping, version_id_mapping, error>>
  /\ UNCHANGED jvars

\* lines 254-256: the store fails a step (an insert or the commit that ends
\* it) after j of the step's inserts
StoreError ==
  /\ ipc \in TableSet
  /\ \E j \in 0..(StepOut(ipc).seq[ipc] - conn.seq[ipc]) :
       conn' = Partial(ipc, j)
  /\ error' = "sqlite3.Error"
  /\ ipc' = "except"
  /\ UNCHANGED <<input_db, exists, disk, disk0, game_id_mapping,
                 version_id_mapping, inserted, committed>>
  /\ UNCHANGED jvars

\* lines 254-262: the handler prints, exits, and the finally clause closes
Finally ==
  /\ ipc = "except"
  /\ disk' = Close(disk, conn)
  /\ ipc' = "failed"
  /\ UNCHANGED <<input_db, exists, conn, disk0, game_id_mapping, version_id_mapping,
                 inserted, error, committed>>
  /\ UNCHANGED jvars

\* ------------------------------------------------------------ inputs, stores
Igdb == 1..MaxIgdb
Data == 1..MaxData

\* the tables of at most max rows with the ids gap+1, gap+2, ...
GameTables(max, gap) ==
  UNION {{{[id |-> gap + i, igdb_id |-> f[i]] : i \in 1..n} : f \in [1..n -> Igdb]}
           : n \in 0..max}

VersionTables(max, gap, parents) ==
  UNION {{{[id |-> gap + i, game_id |-> f[i]] : i \in 1..n} : f \in [1..n -> parents]}
           : n \in 0..max}

ChildTables(max, gap, parents) ==
  UNION {{{[id |-> gap + i, version_id |-> f[i].p, data |-> f[i].d] : i \in 1..n}
            : f \in [1..n -> [p : parents, d : Data]]} : n \in 0..max}

Rows(s) == Cardinality(s.games) + Cardinality(s.versions)
             + Cardinality(s.hashes) + Cardinality(s.config_files)

\* sqlite_sequence is gap + the number of rows: gap ids were handed out to
\* rows since deleted
Store(v, g, vs, h, c, gap) ==
  [version |-> v, games |-> g, versions |-> vs, hashes |-> h, config_files |-> c,
   seq |-> [t \in TableSet |->
              CASE t = "games" -> gap + Cardinality(g)
                [] t = "versions" -> gap + Cardinality(vs)
                [] t = "hashes" -> gap + Cardinality(h)
                [] OTHER -> gap + Cardinality(c)]]

\* the stores with the given db_versions, per-table sizes and at most
\* maxRows rows; no foreign key is declared, so a parent id may match no row
Stores(vers, mg, mv, mh, mc, maxRows) ==
  {s \in {Store(v, g, vs, h, c, 0) :
            v \in vers, g \in GameTables(mg, 0),
            vs \in VersionTables(mv, 0, 1..MaxSrcGames),
            h \in ChildTables(mh, 0, 1..MaxSrcVersions),
            c \in ChildTables(mc, 0, 1..MaxSrcVersions)} : Rows(s) <= maxRows}

Sources == Stores(DbVersions, MaxSrcGames, MaxSrcVersions, MaxSrcHashes, MaxSrcConfigs, MaxSrcRows)

TargetsAt(vers, maxRows, gap) ==
  {s \in {Store(v, g, vs, h, c, gap) :
            v \in vers, g \in GameTables(MaxDstGames, gap),
            vs \in VersionTables(MaxDstPerTable, gap, (gap + 1)..(gap + MaxDstGames)),
            h \in ChildTables(MaxDstPerTable, gap, (gap + 1)..(gap + MaxDstPerTable)),
            c \in ChildTables(MaxDstPerTable, gap, (gap + 1)..(gap + MaxDstPerTable))}
       : Rows(s) <= maxRows}

Targets(vers, maxRows) == UNION {TargetsAt(vers, maxRows, gap) : gap \in 0..MaxGap}

\* no output file: what the version check and the copies would see is nothing
NoStore == Store("", {}, {}, {}, {}, 0)

NoCounts == [t \in TableSet |-> 0]

\* the import tool before it runs
IInit ==
  /\ ipc = "start"
  /\ input_db \in Sources
  /\ exists \in BOOLEAN
  /\ disk \in IF exists THEN Targets(DbVersions, MaxDstRows) ELSE {NoStore}
  /\ conn = disk
  /\ disk0 = disk
  /\ game_id_mapping = EmptyDict
  /\ version_id_mapping = EmptyDict
  /\ inserted = NoCounts
  /\ error = ""
  /\ committed = << >>

INext ==
  \/ CheckVersion \/ Initialize \/ CopyGames \/ CopyVersions \/ CopyHashes
  \/ CopyConfigFiles \/ StoreError \/ Finally

\* the import tool is not running
IIdle ==
  /\ ipc = "idle"
  /\ input_db = NoStore
  /\ exists = FALSE
  /\ disk = NoStore
  /\ conn = NoStore
  /\ disk0 = NoStore
  /\ game_id_mapping = EmptyDict
  /\ version_id_mapping = EmptyDict
  /\ inserted = NoCounts
  /\ error = ""
  /\ committed = << >>

\* the merge tool is not running
JIdle ==
  /\ pc = "idle"
  /\ file = AbsentFile
  /\ submission = << >>
  /\ validate = FALSE
  /\ archives = EmptyDict
  /\ ok = TRUE
  /\ global_db = [hasGames |-> FALSE, games |-> << >>]
  /\ merged_count = 0
  /\ runs = 1
  /\ before = AbsentFile
  /\ first = AbsentFile

vars == <<jvars, ivars>>

\* merge_submission.py run on a catalog file and a submission
Init == JInit /\ IIdle
Next == JNext
Spec == Init /\ [][Next]_vars

\* import_database.py run on a source store and an output path
InitImport == IInit /\ JIdle
SpecImport == InitImport /\ [][INext]_vars

\* the id remaps a caller can pass: any partial map into ids of the output
Remaps(keys) == UNION {[S -> 1..MaxMapped] : S \in SUBSET keys}

\* copy_versions and copy_table called with any remap on any source tables
InitCopy ==
  /\ JIdle
  /\ ipc \in {"versions", "hashes"}
  /\ input_db \in {s \in Sources : s.version = DB_VERSION /\ s.games = {}
                                   /\ (ipc = "hashes" => s.versions = {})}
  /\ exists = TRUE
  /\ disk \in Targets({DB_VERSION}, MaxCopyDstRows)
  /\ conn = disk
  /\ disk0 = disk
  /\ game_id_mapping \in IF ipc = "versions" THEN Remaps(1..MaxSrcGames) ELSE {EmptyDict}
  /\ version_id_mapping \in IF ipc = "hashes" THEN Remaps(1..MaxSrcVersions) ELSE {EmptyDict}
  /\ inserted = NoCounts
  /\ error = ""
  /\ committed = << >>

NextCopy == CopyVersions \/ CopyHashes \/ CopyConfigFiles

SpecCopy == InitCopy /\ [][NextCopy]_vars

\* -------------------------------------------- claims, relational import tool
Committed(t) == \E i \in 1..Len(committed) : committed[i] = t

GameCount(st, x) == Cardinality({r \in st.games : r.igdb_id = x})

\* C4: after copy_db_content the number of output games with an igdb_id is
\* unchanged for every igdb_id the output held before, and at most one for
\* every other igdb_id.
C4_NoDuplicateGames ==
  Committed("games") =>
    \A x \in Igdb :
      IF GameCount(disk0, x) > 0
      THEN GameCount(disk, x) = GameCount(disk0, x)
      ELSE GameCount(disk, x) <= 1

\* the source holds two games with an igdb_id new to the output, which also
\* held a game before, and one of the two was inserted
C4_Witness ==
  /\ Committed("games")
  /\ disk0.games # {}
  /\ \E x \in Igdb : /\ GameCount(input_db, x) = 2
                     /\ GameCount(disk0, x) = 0
                     /\ GameCount(disk, x) = 1

Closed(st) ==
  /\ \A r \in st.versions : r.game_id \in Ids(st.games)
  /\ \A r \in st.hashes \cup st.config_files : r.version_id \in Ids(st.versions)

\* C5: if every version, hash and config_files row of the output referenced
\* an existing parent before the import, then after the four copies every
\* hash and config_files row references a version of the output and every
\* version references a game of the output.
C5_ReferentialClosure ==
  (ipc = "done" /\ Closed(disk0)) => Closed(disk)

\* a finished import into a non-empty closed output that copied a game, a
\* version of it under a new id and a child row of that version
C5_Witness ==
  /\ ipc = "done"
  /\ Closed(disk0)
  /\ disk0.versions # {}
  /\ inserted["games"] >= 1
  /\ inserted["hashes"] + inserted["config_files"] >= 1
  /\ \E k \in DOMAIN game_id_mapping : game_id_mapping[k] # k
  /\ \E k \in DOMAIN version_id_mapping : version_id_mapping[k] # k

SameRows(a, b) == \A t \in TableSet : a[t] = b[t]

\* C6: once the tool is past its start, a source db_version that differs from
\* the output's means the tool has reported the conflict and has written no
\* row to the output.
C6_VersionSkewGate ==
  (ipc # "start" /\ input_db.version # disk.version) =>
    (ipc = "conflict" /\ SameRows(disk, disk0))

Unresolved == {r \in input_db.versions : r.game_id \notin DOMAIN game_id_mapping}

Resolved == input_db.versions \ Unresolved

\* C7 as stated: when the source holds a version whose game_id is not a key
\* of the remap, copy_versions raises and the import aborts.
C7_FatalOnUnresolvedParent ==
  (Unresolved # {} /\ ipc # "versions") =>
    (error = "RuntimeError" /\ ipc = "except" /\ ~Committed("versions"))

\* C7 amended: copy_versions never raises on an unresolved parent; it copies
\* exactly the versions whose game_id is a key of the remap, and a version
\* whose game_id is not a key is left out without an error.
C7_UnresolvedParentSkipped ==
  /\ error # "RuntimeError"
  /\ Committed("versions") =>
       /\ DOMAIN version_id_mapping = Ids(Resolved)
       /\ inserted["versions"] = Cardinality(Resolved)
       /\ Cardinality(disk.versions) = Cardinality(disk0.versions) + Cardinality(Resolved)

\* copy_versions ran to its end on a source with a resolved and an
\* unresolved version
C7_Witness ==
  /\ ipc = "hashes"
  /\ Unresolved # {}
  /\ Resolved # {}
  /\ inserted["versions"] = 1

Mapped(t) == {r \in input_db[t] : r.version_id \in DOMAIN version_id_mapping}

New(t) == disk[t] \ disk0[t]

\* the rows copy_table put into table t are the mapped source rows, remapped
ExactCopy(t) ==
  /\ inserted[t] = Cardinality(New(t))
  /\ inserted[t] = Cardinality(Mapped(t))
  /\ Ids(New(t)) = (disk0.seq[t] + 1)..(disk0.seq[t] + inserted[t])
  /\ \A n \in New(t) :
       Cardinality({m \in New(t) : m.version_id = n.version_id /\ m.data = n.data})
         = Cardinality({r \in Mapped(t) :
                          version_id_mapping[r.version_id] = n.version_id /\ r.data = n.data})

\* C8: copy_table inserts one row per source row whose version_id is a key of
\* the remap, with the mapped version_id, a new store-assigned id and the
\* other columns equal, nothing for any other source row, and reports as
\* inserted the number of rows it inserted.
C8_CopiesMappedSubtree ==
  /\ Committed("hashes") => ExactCopy("hashes")
  /\ Committed("config_files") => ExactCopy("config_files")

\* copy_table ran on hashes with a mapped row, remapped to another id, and an
\* unmapped row
C8_Witness ==
  /\ Committed("hashes")
  /\ inserted["hashes"] >= 1
  /\ input_db.hashes \ Mapped("hashes") # {}
  /\ \E r \in Mapped("hashes") : version_id_mapping[r.version_id] # r.version_id

\* C10: the tables are committed in the order games, versions, hashes,
\* config_files; a table not yet committed is on disk as before the import,
\* a committed one holds its rows from before plus the rows the step
\* reported, also after a later step failed; a failed run has stopped.
C10_CommitOrder ==
  /\ \A i \in 1..Len(committed) : committed[i] = Tables[i]
  /\ \A t \in TableSet :
       IF Committed(t)
       THEN /\ disk0[t] \subseteq disk[t]
            /\ Cardinality(disk[t]) = Cardinality(disk0[t]) + inserted[t]
       ELSE disk[t] = disk0[t]
  /\ ipc = "failed" => (Len(committed) < 4 /\ ~ENABLED INext)

\* the versions step failed after writing a row, with a game committed
\* before it
C10_Witness ==
  /\ ipc = "failed"
  /\ committed = <<"games">>
  /\ inserted["games"] >= 1
  /\ conn.versions # disk.versions

====
